---- MODULE Spec2Model ----
(***************************************************************************)
(* Credential broker (WorkspaceAPI) and authorization callback of the      *)
(* google-workspace-mcp server.                                            *)
(*                                                                         *)
(* The broker state is the in-memory token map, the token file, the        *)
(* credential cache and the four service-client caches.  Objects built by  *)
(* `new` (JWT, OAuth2Client, service clients) carry an object number       *)
(* (oid), so that "the same handle" is a comparison the model can make.    *)
(* The /oauth2callback handler is an async function: it runs in three      *)
(* pieces separated by its two awaits (getToken, getProfile), and the      *)
(* pieces of different requests interleave with each other and with the    *)
(* broker's synchronous operations.                                        *)
(***************************************************************************)
EXTENDS Integers, Sequences, FiniteSets, TLC

(* ------------------------------ bounds -------------------------------- *)

\* Objects (credentials and service clients) constructed in one run.
MaxObjects == 4

\* Refresh tokens the authorization provider issues in one run; each one it
\* issues is new, so they are numbered 1, 2, ...
MaxIssued == 1

\* Authorization callbacks that may be in flight at the same time in the
\* specification of the server (SpecCallback).
MaxFlows == 1

\* Requests (callbacks or tool calls) that may be suspended on a network
\* call at the same time in the specifications of concurrent requests; also
\* the number of refresh tokens issued to concurrent callbacks.
MaxConcurrent == 2

\* Objects constructed in one run in which callbacks are in flight.
MaxCallbackObjects == 2

(* ------------------------- program constants -------------------------- *)

WORKSPACE_ACCOUNT == "nick@outliyr.com"

ALLOWED_ACCOUNTS ==
  <<"nick@outliyr.com", "outliyraffiliates@gmail.com", "iamnickurban@gmail.com">>

SCOPES ==
  <<"https://mail.google.com/",
    "https://www.googleapis.com/auth/calendar",
    "https://www.googleapis.com/auth/drive",
    "https://www.googleapis.com/auth/contacts">>

\* process.env.GOOGLE_OAUTH_CLIENT_ID / GOOGLE_OAUTH_CLIENT_SECRET: the
\* callback route exists only when both are set.
googleClientId == "client-id"

googleClientSecret == "client-secret"

\* Constructor argument keyFile (process.env.GOOGLE_SA_KEY_FILE).
keyFile == "/app/credentials/google-sa.json"

(* ------------------------------ inputs -------------------------------- *)

\* Account strings the operations are called with: the delegated identity,
\* an allow-listed OAuth identity and an identity outside the allow-list.
Accounts == {"nick@outliyr.com", "iamnickurban@gmail.com", "mallory@example.com"}

\* Values of the SETUP_TOKEN environment variable; Unset is undefined.
Unset == [type |-> "undefined"]

SetupSecret == [type |-> "string", value |-> "s3cret"]

WrongSecret == [type |-> "string", value |-> "guess"]

(* ------------------------- pure functions ----------------------------- *)

Range(s) == {s[i] : i \in 1..Len(s)}

isAllowedAccount(account) == account \in Range(ALLOWED_ACCOUNTS)

TokenConfig(rt) ==
  [client_id |-> googleClientId, client_secret |-> googleClientSecret,
   refresh_token |-> rt]

\* The in-memory token map is a JavaScript object: an insertion-ordered list
\* of (key, value) members with distinct keys.
ObjectKeys(obj) == [i \in 1..Len(obj) |-> obj[i].key]

HasKey(obj, k) == \E i \in 1..Len(obj) : obj[i].key = k

\* obj[k]; undefined when the key is absent.
Lookup(obj, k) ==
  IF HasKey(obj, k)
  THEN (CHOOSE m \in Range(obj) : m.key = k).value
  ELSE [type |-> "undefined"]

\* obj[k] = v: an existing key keeps its place, a new key is appended.
Assign(obj, k, v) ==
  IF HasKey(obj, k)
  THEN [i \in 1..Len(obj) |->
          IF obj[i].key = k THEN [key |-> k, value |-> v] ELSE obj[i]]
  ELSE Append(obj, [key |-> k, value |-> v])

\* The token file is absent, holds text that is not JSON, or holds the JSON
\* text of an object; the text of an object is the list of its members, each
\* member flattened to the four strings written for it.
FileMissing == [text |-> "ENOENT"]

FileCorrupt == [text |-> "garbage"]

JSONstringify(obj) ==
  [text |-> "object",
   members |-> [i \in 1..Len(obj) |->
                  <<obj[i].key, obj[i].value.client_id,
                    obj[i].value.client_secret, obj[i].value.refresh_token>>]]

JSONparse(raw) ==
  [i \in 1..Len(raw.members) |->
     [key |-> raw.members[i][1],
      value |-> [client_id |-> raw.members[i][2],
                 client_secret |-> raw.members[i][3],
                 refresh_token |-> raw.members[i][4]]]]

\* readFileSync followed by JSON.parse succeeds.
Readable(raw) == raw.text = "object"

\* getConfiguredAccounts without the includes() test.
getConfiguredAccountsNoDedup(toks) == <<WORKSPACE_ACCOUNT>> \o ObjectKeys(toks)

RECURSIVE PushNew(_, _)
PushNew(accounts, keys) ==
  IF keys = <<>> THEN accounts
  ELSE PushNew(IF Head(keys) \in Range(accounts) THEN accounts
               ELSE Append(accounts, Head(keys)),
               Tail(keys))

getConfiguredAccounts(toks) == PushNew(<<WORKSPACE_ACCOUNT>>, ObjectKeys(toks))

(* ------------------------------- state -------------------------------- *)

VARIABLES
  tokens,           \* WorkspaceAPI.tokens
  file,             \* content of the file at WorkspaceAPI.tokensFile
  authClients,      \* Map account -> JWT | OAuth2Client
  gmailClients,     \* Map account -> gmail client
  calendarClients,  \* Map account -> calendar client
  driveClients,     \* Map account -> drive client
  peopleClients,    \* Map account -> people client
  nextOid,          \* number of the next object constructed
  issued,           \* refresh tokens the provider has issued in this run
  setupToken,       \* process.env.SETUP_TOKEN
  flows,            \* /oauth2callback requests, each at its await
  last              \* the last piece of a callback that ran: request, response

vars ==
  <<tokens, file, authClients, gmailClients, calendarClients, driveClients,
    peopleClients, nextOid, issued, setupToken, flows, last>>

Services == {"gmail", "calendar", "drive", "people"}

Flows == 1..MaxFlows

\* The async handlers that can be suspended at the same time.
Slots == 1..(IF MaxConcurrent > MaxFlows THEN MaxConcurrent ELSE MaxFlows)

undefined == [type |-> "undefined"]

EmptyMap == [a \in Accounts |-> undefined]

\* Map.clear()
Clear(map) == EmptyMap

\* Map.delete(key)
Delete(map, k) == [map EXCEPT ![k] = undefined]

\* Map.set(key, value)
Set(map, k, v) == [map EXCEPT ![k] = v]

CacheOf(svc) ==
  CASE svc = "gmail" -> gmailClients
    [] svc = "calendar" -> calendarClients
    [] svc = "drive" -> driveClients
    [] svc = "people" -> peopleClients

VersionOf(svc) == IF svc \in {"gmail", "people"} THEN "v1" ELSE "v3"

Idle == [pc |-> "idle"]

NoCallback == [op |-> "none"]

(* ---------------------------- the broker ------------------------------ *)

\* Files the token file may hold when the process starts: it is written by
\* the entrypoint from an environment variable, or left from an earlier run
\* (refresh token 0 was issued before this run).
InitialFiles ==
  {FileMissing, FileCorrupt, JSONstringify(<<>>),
   JSONstringify(<<[key |-> "iamnickurban@gmail.com", value |-> TokenConfig(0)]>>)}

\* loadTokens leaving a record in this.tokens when the read or the parse fails.
loadedTokensStale(raw) ==
  IF Readable(raw) THEN JSONparse(raw)
  ELSE <<[key |-> "iamnickurban@gmail.com", value |-> TokenConfig(0)]>>

\* What loadTokens leaves in this.tokens.
loadedTokens(raw) == IF Readable(raw) THEN JSONparse(raw) ELSE <<>>

\* loadTokens without the clear() calls.
loadedCacheKeep(raw, map) == map

\* What loadTokens leaves in one of the five caches: the clear() calls are
\* inside the try block, after the read and the parse.
loadedCache(raw, map) == IF Readable(raw) THEN Clear(map) ELSE map

loadTokens ==
  /\ tokens' = loadedTokens(file)
  /\ authClients' = loadedCache(file, authClients)
  /\ gmailClients' = loadedCache(file, gmailClients)
  /\ calendarClients' = loadedCache(file, calendarClients)
  /\ driveClients' = loadedCache(file, driveClients)
  /\ peopleClients' = loadedCache(file, peopleClients)
  /\ UNCHANGED <<file, nextOid, issued, setupToken, flows, last>>

\* Outcomes of mkdirSync + writeFileSync: the write completes; it throws
\* before the file is touched (EACCES, a failing mkdir); it throws after the
\* file was opened and truncated (ENOSPC, EIO).
WriteOutcomes == {"ok", "EACCES", "ENOSPC"}

\* saveToken replacing this.tokens by an object that holds the one record.
savedTokensReplace(toks, email, token) == <<[key |-> email, value |-> token]>>

\* this.tokens after saveToken: assigned before anything is written.
savedTokens(toks, email, token) == Assign(toks, email, token)

\* The file after saveToken's write of the (already updated) map.
writtenFile(old, toks, w) ==
  CASE w = "ok" -> JSONstringify(toks)
    [] w = "EACCES" -> old
    [] w = "ENOSPC" -> FileCorrupt

\* saveToken without the delete(email) calls.
savedCacheKeep(map, email, w) == map

\* One of the five caches after saveToken: delete(email) runs after the
\* write, so it is skipped when the write throws.
savedCache(map, email, w) == IF w = "ok" THEN Delete(map, email) ELSE map

\* saveToken(email, token) as the part of a step that changes the broker.
saveToken(email, token, w) ==
  /\ tokens' = savedTokens(tokens, email, token)
  /\ file' = writtenFile(file, tokens', w)
  /\ authClients' = savedCache(authClients, email, w)
  /\ gmailClients' = savedCache(gmailClients, email, w)
  /\ calendarClients' = savedCache(calendarClients, email, w)
  /\ driveClients' = savedCache(driveClients, email, w)
  /\ peopleClients' = savedCache(peopleClients, email, w)

\* A caller of the class saves a record holding a newly issued refresh token.
SaveTokenCall(email, w) ==
  /\ issued' = issued + 1
  /\ saveToken(email, TokenConfig(issued + 1), w)
  /\ UNCHANGED <<nextOid, setupToken, flows, last>>

\* new JWT({keyFile, scopes, subject})
NewJWT(account, oid) ==
  [type |-> "JWT", keyFile |-> keyFile, scopes |-> SCOPES, subject |-> account,
   oid |-> oid]

\* new OAuth2Client(client_id, client_secret) + setCredentials({refresh_token})
NewOAuth2Client(tokenConfig, oid) ==
  [type |-> "OAuth2Client", client_id |-> tokenConfig.client_id,
   client_secret |-> tokenConfig.client_secret,
   refresh_token |-> tokenConfig.refresh_token, oid |-> oid]

\* auth choosing the strategy by what the token map holds: OAuth2 when a
\* record is stored under the account, the service account otherwise.
authByStoredRecord(account, toks, cache, oid) ==
  IF ~isAllowedAccount(account)
  THEN [ok |-> FALSE, error |-> "Account not allowed", client |-> undefined,
        authClients |-> cache, built |-> 0]
  ELSE IF cache[account] # undefined
  THEN [ok |-> TRUE, error |-> "", client |-> cache[account],
        authClients |-> cache, built |-> 0]
  ELSE IF Lookup(toks, account) # undefined
  THEN [ok |-> TRUE, error |-> "",
        client |-> NewOAuth2Client(Lookup(toks, account), oid),
        authClients |-> Set(cache, account, NewOAuth2Client(Lookup(toks, account), oid)),
        built |-> 1]
  ELSE IF account = WORKSPACE_ACCOUNT
  THEN [ok |-> TRUE, error |-> "", client |-> NewJWT(account, oid),
        authClients |-> Set(cache, account, NewJWT(account, oid)), built |-> 1]
  ELSE [ok |-> FALSE, error |-> "No refresh token", client |-> undefined,
        authClients |-> cache, built |-> 0]

\* auth without the allow-list test.
authAnyAccount(account, toks, cache, oid) ==
  IF cache[account] # undefined
  THEN [ok |-> TRUE, error |-> "", client |-> cache[account],
        authClients |-> cache, built |-> 0]
  ELSE IF account = WORKSPACE_ACCOUNT
  THEN [ok |-> TRUE, error |-> "", client |-> NewJWT(account, oid),
        authClients |-> Set(cache, account, NewJWT(account, oid)), built |-> 1]
  ELSE IF Lookup(toks, account) = undefined
  THEN [ok |-> FALSE, error |-> "No refresh token", client |-> undefined,
        authClients |-> cache, built |-> 0]
  ELSE [ok |-> TRUE, error |-> "",
        client |-> NewOAuth2Client(Lookup(toks, account), oid),
        authClients |-> Set(cache, account, NewOAuth2Client(Lookup(toks, account), oid)),
        built |-> 1]

\* auth(account): what it returns or throws, and the credential cache after.
\* built is the number of objects it constructed (the first gets number oid).
auth(account, toks, cache, oid) ==
  IF ~isAllowedAccount(account)
  THEN [ok |-> FALSE, error |-> "Account not allowed", client |-> undefined,
        authClients |-> cache, built |-> 0]
  ELSE IF cache[account] # undefined
  THEN [ok |-> TRUE, error |-> "", client |-> cache[account],
        authClients |-> cache, built |-> 0]
  ELSE IF account = WORKSPACE_ACCOUNT
  THEN [ok |-> TRUE, error |-> "", client |-> NewJWT(account, oid),
        authClients |-> Set(cache, account, NewJWT(account, oid)), built |-> 1]
  ELSE IF Lookup(toks, account) = undefined
  THEN [ok |-> FALSE, error |-> "No refresh token", client |-> undefined,
        authClients |-> cache, built |-> 0]
  ELSE [ok |-> TRUE, error |-> "",
        client |-> NewOAuth2Client(Lookup(toks, account), oid),
        authClients |-> Set(cache, account, NewOAuth2Client(Lookup(toks, account), oid)),
        built |-> 1]

\* A service client built on a credential of its own, not on the one given.
NewServiceOwnCredential(api, version, cred, oid) ==
  [type |-> "service", api |-> api, version |-> version,
   auth |-> [type |-> cred.type, oid |-> oid], oid |-> oid]

\* google.gmail/calendar/drive/people({version, auth})
NewService(api, version, cred, oid) ==
  [type |-> "service", api |-> api, version |-> version, auth |-> cred, oid |-> oid]

\* A getter without the set() call that stores the client it built.
getServiceNoStore(api, version, account, cache, toks, authCache, oid) ==
  IF cache[account] # undefined
  THEN [ok |-> TRUE, error |-> "", client |-> cache[account], cache |-> cache,
        authClients |-> authCache, nextOid |-> oid]
  ELSE LET a == auth(account, toks, authCache, oid)
           c == NewService(api, version, a.client, oid + a.built)
       IN IF a.ok
          THEN [ok |-> TRUE, error |-> "", client |-> c, cache |-> cache,
                authClients |-> a.authClients, nextOid |-> oid + a.built + 1]
          ELSE [ok |-> FALSE, error |-> a.error, client |-> undefined,
                cache |-> cache, authClients |-> a.authClients, nextOid |-> oid]

\* A getter without the cache lookup: it builds a client on every call.
getServiceAlwaysBuilds(api, version, account, cache, toks, authCache, oid) ==
  LET a == auth(account, toks, authCache, oid)
      c == NewService(api, version, a.client, oid + a.built)
  IN IF a.ok
     THEN [ok |-> TRUE, error |-> "", client |-> c,
           cache |-> Set(cache, account, c),
           authClients |-> a.authClients, nextOid |-> oid + a.built + 1]
     ELSE [ok |-> FALSE, error |-> a.error, client |-> undefined,
           cache |-> cache, authClients |-> a.authClients, nextOid |-> oid]

\* The body shared by gmail(), calendar(), drive() and people(): look the
\* account up in the service's own cache, else build a client on auth(account).
\* The result: what is returned or thrown, the service's cache, the
\* credential cache and the object counter after the call.
getService(api, version, account, cache, toks, authCache, oid) ==
  IF cache[account] # undefined
  THEN [ok |-> TRUE, error |-> "", client |-> cache[account], cache |-> cache,
        authClients |-> authCache, nextOid |-> oid]
  ELSE LET a == auth(account, toks, authCache, oid)
           c == NewService(api, version, a.client, oid + a.built)
       IN IF a.ok
          THEN [ok |-> TRUE, error |-> "", client |-> c,
                cache |-> Set(cache, account, c),
                authClients |-> a.authClients, nextOid |-> oid + a.built + 1]
          ELSE [ok |-> FALSE, error |-> a.error, client |-> undefined,
                cache |-> cache, authClients |-> a.authClients, nextOid |-> oid]

gmail(account) ==
  LET r == getService("gmail", "v1", account, gmailClients, tokens, authClients, nextOid)
  IN /\ gmailClients' = r.cache
     /\ authClients' = r.authClients
     /\ nextOid' = r.nextOid
     /\ UNCHANGED <<tokens, file, calendarClients, driveClients, peopleClients,
                    issued, setupToken, flows, last>>

calendar(account) ==
  LET r == getService("calendar", "v3", account, calendarClients, tokens, authClients, nextOid)
  IN /\ calendarClients' = r.cache
     /\ authClients' = r.authClients
     /\ nextOid' = r.nextOid
     /\ UNCHANGED <<tokens, file, gmailClients, driveClients, peopleClients,
                    issued, setupToken, flows, last>>

drive(account) ==
  LET r == getService("drive", "v3", account, driveClients, tokens, authClients, nextOid)
  IN /\ driveClients' = r.cache
     /\ authClients' = r.authClients
     /\ nextOid' = r.nextOid
     /\ UNCHANGED <<tokens, file, gmailClients, calendarClients, peopleClients,
                    issued, setupToken, flows, last>>

people(account) ==
  LET r == getService("people", "v1", account, peopleClients, tokens, authClients, nextOid)
  IN /\ peopleClients' = r.cache
     /\ authClients' = r.authClients
     /\ nextOid' = r.nextOid
     /\ UNCHANGED <<tokens, file, gmailClients, calendarClients, driveClients,
                    issued, setupToken, flows, last>>

(* ---------------------- GET /oauth2callback --------------------------- *)

Str(v) == [type |-> "string", value |-> v]

\* req.query.error
ErrorParams == {undefined, Str("access_denied")}

\* req.query.code: absent, a code the provider issued, a code it did not.
CodeParams == {undefined, Str("good"), Str("bad")}

\* JSON.stringify({account}): the state without the setup token.
stringifyStateNoToken(account, token) ==
  [text |-> "object", members |-> <<<<"account", account>>>>]

\* JSON.stringify({account, token}) as /setup binds it into the redirect.
stringifyState(account, token) ==
  [text |-> "object", members |-> <<<<"account", account>>, <<"token", token>>>>]

\* req.query.state: absent, text that is not JSON, the JSON text null, or the
\* JSON text of an object: one with an account and a token (the configured
\* secret or another string), or one with an account and no token.
StateParams ==
  {undefined, [text |-> "garbage"], [text |-> "null"],
   stringifyState("iamnickurban@gmail.com", SetupSecret.value),
   stringifyState("iamnickurban@gmail.com", WrongSecret.value),
   [text |-> "object", members |-> <<<<"account", "iamnickurban@gmail.com">>>>]}

\* JSON.parse(stateRaw) throws.
parseThrows(stateRaw) == stateRaw.text = "garbage"

\* JSON.parse(stateRaw) when it does not throw.
parseState(stateRaw) ==
  IF stateRaw.text = "null" THEN [type |-> "null"]
  ELSE [type |-> "object", account |-> stateRaw.members[1][2],
        token |-> IF Len(stateRaw.members) >= 2 THEN Str(stateRaw.members[2][2])
                  ELSE undefined]

\* The head of the handler without the setup-token test.
validateCallbackNoSecretCheck(error, code, stateRaw, secret) ==
  IF error # undefined THEN "400 Authorization failed"
  ELSE IF code = undefined \/ stateRaw = undefined THEN "400 Missing code or state"
  ELSE IF parseThrows(stateRaw) THEN "400 Invalid state"
  ELSE IF parseState(stateRaw).type = "null" THEN "TypeError"
  ELSE "proceed"

\* The head of the handler with `state.token !== setupToken` alone, without
\* `!setupToken ||`.
validateCallbackUnsetPasses(error, code, stateRaw, secret) ==
  IF error # undefined THEN "400 Authorization failed"
  ELSE IF code = undefined \/ stateRaw = undefined THEN "400 Missing code or state"
  ELSE IF parseThrows(stateRaw) THEN "400 Invalid state"
  ELSE IF parseState(stateRaw).type = "null" THEN "TypeError"
  ELSE IF parseState(stateRaw).token # secret THEN "403 Invalid setup token"
  ELSE "proceed"

\* The synchronous head of the handler, up to the first await: the response
\* it sends, or "proceed" when it goes on to exchange the code.  Reading
\* state.token of null raises a TypeError outside every try block; with no
\* setup secret configured `!setupToken ||` answers before state.token is read.
validateCallback(error, code, stateRaw, secret) ==
  IF error # undefined THEN "400 Authorization failed"
  ELSE IF code = undefined \/ stateRaw = undefined THEN "400 Missing code or state"
  ELSE IF parseThrows(stateRaw) THEN "400 Invalid state"
  ELSE IF secret = Unset THEN "403 Invalid setup token"
  ELSE IF parseState(stateRaw).type = "null" THEN "TypeError"
  ELSE IF parseState(stateRaw).token # secret THEN "403 Invalid setup token"
  ELSE "proceed"

oauth2callback(f, error, code, stateRaw) ==
  LET v == validateCallback(error, code, stateRaw, setupToken)
  IN /\ flows[f] = Idle
     /\ flows' = [flows EXCEPT ![f] =
                    IF v = "proceed"
                    THEN [pc |-> "getToken", code |-> code, state |-> stateRaw]
                    ELSE Idle]
     /\ last' = [op |-> "request", error |-> error, code |-> code,
                 state |-> stateRaw, response |-> v]
     /\ UNCHANGED <<tokens, file, authClients, gmailClients, calendarClients,
                    driveClients, peopleClients, nextOid, issued, setupToken>>

\* What `await oauth2.getToken(code)` can produce: the provider rejects a
\* code it did not issue; for a code it issued the exchange yields tokens
\* with a newly issued refresh token or without one, or the request fails.
ExchangeResults(code, n) ==
  IF code = Str("good")
  THEN {[ok |-> TRUE, refresh_token |-> Str(n + 1)],
        [ok |-> TRUE, refresh_token |-> undefined],
        [ok |-> FALSE, refresh_token |-> undefined]}
  ELSE {[ok |-> FALSE, refresh_token |-> undefined]}

\* The handler throwing on a missing refresh token instead of answering.
afterExchangeThrows(x) ==
  IF ~x.ok \/ x.refresh_token = undefined THEN "500 Token exchange failed"
  ELSE "proceed"

\* The handler answering a failed exchange like a missing refresh token.
afterExchangeAnswers400(x) ==
  IF ~x.ok \/ x.refresh_token = undefined THEN "400 No refresh token received"
  ELSE "proceed"

\* The response after the exchange, or "proceed" to the profile query.
afterExchange(x) ==
  IF ~x.ok THEN "500 Token exchange failed"
  ELSE IF x.refresh_token = undefined THEN "400 No refresh token received"
  ELSE "proceed"

getTokenReturns(f, x) ==
  /\ flows[f].pc = "getToken"
  /\ x \in ExchangeResults(flows[f].code, issued)
  /\ issued' = IF x.refresh_token # undefined THEN issued + 1 ELSE issued
  /\ flows' = [flows EXCEPT ![f] =
                 IF afterExchange(x) = "proceed"
                 THEN [pc |-> "getProfile", state |-> flows[f].state,
                       refresh_token |-> x.refresh_token]
                 ELSE Idle]
  /\ last' = [op |-> "getToken", response |-> afterExchange(x)]
  /\ UNCHANGED <<tokens, file, authClients, gmailClients, calendarClients,
                 driveClients, peopleClients, nextOid, setupToken>>

\* What `await gmail.users.getProfile({userId: "me"})` can produce: the
\* address of the account that gave consent, or a failed request.
ProfileResults ==
  {[ok |-> TRUE, emailAddress |-> a] : a \in Accounts}
    \cup {[ok |-> FALSE, emailAddress |-> ""]}

\* The record saved under the account the state names.
storageKeyFromState(profile, stateAccount) == stateAccount

\* The key saveToken is called with.
storageKey(profile, stateAccount) == profile.emailAddress

getProfileReturns(f, p, w) ==
  /\ flows[f].pc = "getProfile"
  /\ flows' = [flows EXCEPT ![f] = Idle]
  /\ IF p.ok
     THEN /\ saveToken(storageKey(p, parseState(flows[f].state).account),
                       TokenConfig(flows[f].refresh_token.value), w)
          /\ last' = [op |-> "getProfile",
                      account |-> parseState(flows[f].state).account,
                      email |-> p.emailAddress,
                      response |-> IF w = "ok" THEN "200 Success"
                                   ELSE "500 Token exchange failed"]
     ELSE /\ w = "ok"
          /\ last' = [op |-> "getProfile",
                      account |-> parseState(flows[f].state).account,
                      email |-> "", response |-> "500 Token exchange failed"]
          /\ UNCHANGED <<tokens, file, authClients, gmailClients, calendarClients,
                         driveClients, peopleClients>>
  /\ UNCHANGED <<nextOid, issued, setupToken>>

(* ------------------------- error translation -------------------------- *)

\* JavaScript values: undefined, null, strings (Str, or Text when the string
\* is written as the list of its pieces), numbers and objects; an object is a
\* record of its properties, and carries isError when it is an Error.
null == [type |-> "null"]

Num(n) == [type |-> "number", value |-> n]

Text(frags) == [type |-> "string", frags |-> frags]

\* The pieces of a string value.
FragsOf(v) == IF "frags" \in DOMAIN v THEN v.frags ELSE <<v.value>>

TypeError == [type |-> "TypeError"]

\* v.name: reading a property of undefined or null raises a TypeError.
prop(v, name) ==
  IF v.type \in {"undefined", "null", "TypeError"} THEN TypeError
  ELSE IF v.type = "object" /\ name \in DOMAIN v THEN v[name]
  ELSE undefined

\* v?.name written as v.name.
optpropNoGuard(v, name) == prop(v, name)

\* v?.name
optprop(v, name) ==
  IF v.type \in {"undefined", "null"} THEN undefined ELSE prop(v, name)

\* The value is truthy (of the values modelled: a non-empty string, a
\* number other than 0, an object).
truthy(v) ==
  CASE v.type = "string" -> FragsOf(v) # <<"">>
    [] v.type = "number" -> v.value # 0
    [] v.type = "object" -> TRUE
    [] OTHER -> FALSE

\* JSON.stringify of a string, of null and of the members of an inner object.
JSONscalar(v) ==
  CASE v.type = "null" -> <<"null">>
    [] v.type = "string" -> <<"\"">> \o FragsOf(v) \o <<"\"">>
    [] v.type = "number" -> <<"number">>
    [] OTHER -> <<>>

JSONmember(obj, name) ==
  IF name \in DOMAIN obj /\ obj[name].type # "undefined"
  THEN <<"\"", name, "\":">> \o
       (IF obj[name].type = "object"
        THEN <<"{">> \o
             (IF "message" \in DOMAIN obj[name]
                   /\ obj[name].message.type # "undefined"
              THEN <<"\"message\":">> \o JSONscalar(obj[name].message)
              ELSE <<>>) \o <<"}">>
        ELSE JSONscalar(obj[name]))
  ELSE <<>>

\* `${JSON.stringify(data)}`: JSON.stringify(undefined) is undefined, which a
\* template renders as the text undefined.
JSONtext(data) ==
  CASE data.type = "undefined" -> <<"undefined">>
    [] data.type = "object" -> <<"{">> \o JSONmember(data, "error") \o <<"}">>
    [] OTHER -> JSONscalar(data)

\* `${status}`
StatusText(status) ==
  CASE status.type = "undefined" -> "undefined"
    [] status.type = "string" -> status.value
    [] status = Num(400) -> "400"
    [] status = Num(401) -> "401"
    [] status = Num(403) -> "403"
    [] status = Num(404) -> "404"
    [] status = Num(429) -> "429"
    [] OTHER -> "500"

\* The switch on status without `case 429`.
statusMessageNo429(status, msg) ==
  CASE status = Num(400) -> <<"Bad request: ">> \o msg
    [] status = Num(401) ->
         <<"Auth failed - check credentials. ",
           "For nick@outliyr.com: verify domain-wide delegation. ",
           "For Gmail accounts: refresh token may be revoked, re-run generate-token. ">>
           \o msg
    [] status = Num(403) ->
         <<"Forbidden - ensure the required API scope is granted. ">> \o msg
    [] status = Num(404) -> <<"Not found: ">> \o msg
    [] OTHER -> <<"Google API error ", StatusText(status), ": ">> \o msg

\* switch (status): strict equality, so the string "429" takes the default.
statusMessage(status, msg) ==
  CASE status = Num(400) -> <<"Bad request: ">> \o msg
    [] status = Num(401) ->
         <<"Auth failed - check credentials. ",
           "For nick@outliyr.com: verify domain-wide delegation. ",
           "For Gmail accounts: refresh token may be revoked, re-run generate-token. ">>
           \o msg
    [] status = Num(403) ->
         <<"Forbidden - ensure the required API scope is granted. ">> \o msg
    [] status = Num(404) -> <<"Not found: ">> \o msg
    [] status = Num(429) -> <<"Rate limited. Wait and try again.">>
    [] OTHER -> <<"Google API error ", StatusText(status), ": ">> \o msg

\* message.includes(piece)
includes(frags, piece) == \E i \in 1..Len(frags) : frags[i] = piece

\* String(error)
StringOf(v) ==
  CASE v.type = "undefined" -> <<"undefined">>
    [] v.type = "null" -> <<"null">>
    [] v.type = "string" -> FragsOf(v)
    [] v.type = "number" -> <<"number">>
    [] OTHER -> <<"[object Object]">>

\* handleApiError(error): the message it returns, or the exception it raises.
handleApiError(error) ==
  IF truthy(error) /\ error.type = "object" /\ "response" \in DOMAIN error
  THEN LET resp == prop(error, "response")
           status == optprop(resp, "status")
           data == optprop(resp, "data")
           m == optprop(optprop(data, "error"), "message")
       IN IF TypeError \in {resp, status, data, m} THEN TypeError
          ELSE Text(statusMessage(status,
                      IF truthy(m) THEN FragsOf(m)
                      ELSE IF data.type = "string" THEN FragsOf(data)
                      ELSE JSONtext(data)))
  ELSE IF error.type = "object" /\ error.isError
  THEN LET message == prop(error, "message")
       IN IF message.type # "string" THEN TypeError
          ELSE IF includes(FragsOf(message), "invalid_grant")
          THEN Text(<<"Refresh token revoked or expired. Re-run: npm run generate-token">>)
          ELSE IF includes(FragsOf(message), "No refresh token")
          THEN Text(FragsOf(message)
                      \o <<". Visit /setup on the server to authorize.">>)
          ELSE Text(<<"Error: ">> \o FragsOf(message))
  ELSE Text(<<"Unexpected error: ">> \o StringOf(error))

\* Values of response.status, and of response.data as the HTTP client leaves
\* it: nothing, null, text, or the parsed JSON of an error body.
Statuses ==
  {undefined, Num(400), Num(401), Num(403), Num(404), Num(429), Num(500),
   Str("429")}

Bodies ==
  {undefined, null, Str("quota exceeded"), Str(""),
   [type |-> "object"],
   [type |-> "object", error |-> null],
   [type |-> "object", error |-> Str("invalid_grant")],
   [type |-> "object", error |-> [type |-> "object"]],
   [type |-> "object", error |-> [type |-> "object", message |-> Str("")]],
   [type |-> "object",
    error |-> [type |-> "object", message |-> Str("Invalid Credentials")]]}

Responses ==
  {undefined, null}
    \cup {[type |-> "object", status |-> st, data |-> d] :
            st \in Statuses, d \in Bodies}

\* auth throwing an error whose message names no remedy.
thrownWithoutHint(account, error) ==
  [type |-> "object", isError |-> TRUE,
   message |-> Text(<<"Missing credentials", " for ", account>>)]

\* new Error(`No refresh token for ${account}. Run the token generation
\* script: npm run generate-token`) and new Error(`Account not allowed:
\* ${account}`), the two errors auth throws.
thrown(account, error) ==
  [type |-> "object", isError |-> TRUE,
   message |-> IF error = "No refresh token"
               THEN Text(<<"No refresh token", " for ", account,
                           ". Run the token generation script: npm run generate-token">>)
               ELSE Text(<<"Account not allowed", ": ", account>>)]

\* The values a catch block can hand to handleApiError: a failed request of
\* the HTTP client (an Error with a response) or a plain object with a
\* response, an Error without one, an object that is neither, and values
\* that are not objects.
ErrorValues ==
  {[type |-> "object", isError |-> e, message |-> Text(<<"Request failed">>),
    response |-> r] : e \in BOOLEAN, r \in Responses}
    \cup {[type |-> "object", isError |-> TRUE, message |-> Text(m)] :
            m \in {<<"invalid_grant">>, <<"boom">>, <<"">>,
                   <<"socket hang up: ", "No refresh token">>}}
    \cup {thrown(a, e) : a \in Accounts,
                         e \in {"No refresh token", "Account not allowed"}}
    \cup {[type |-> "object", isError |-> FALSE]}
    \cup {undefined, null, Str("boom"), Str(""), Num(0), Num(42)}

\* A call of handleApiError on a value.
translate(e) ==
  /\ last' = [op |-> "handleApiError", error |-> e, message |-> handleApiError(e)]
  /\ UNCHANGED <<tokens, file, authClients, gmailClients, calendarClients,
                 driveClients, peopleClients, nextOid, issued, setupToken, flows>>

(* ----------------------------- tool calls ------------------------------ *)

\* params.mode, and the getter the handler of a mode calls first.
Modes == {"gmail", "calendar", "drive", "contacts"}

ServiceOf(mode) == IF mode = "contacts" THEN "people" ELSE mode

\* What a handler does once it holds the service client: it returns a string
\* (a result, or its own error payload for missing fields), or a request to
\* Google throws.
UpstreamOutcomes ==
  {[ok |-> TRUE, error |-> undefined]}
    \cup {[ok |-> FALSE,
           error |-> [type |-> "object", isError |-> TRUE,
                      message |-> Text(<<"Request failed">>),
                      response |-> [type |-> "object", status |-> st, data |-> d]]] :
            st \in {Num(401)},
            d \in {Str("Unauthorized"),
                   [type |-> "object",
                    error |-> [type |-> "object",
                               message |-> Str("Invalid Credentials")]]}}

\* The catch block with the account of the request written into the message.
errorPayloadNamesAccount(account, err) ==
  [type |-> "error",
   error |-> IF handleApiError(err).type = "string"
             THEN Text(<<account, ": ">> \o FragsOf(handleApiError(err)))
             ELSE handleApiError(err)]

\* JSON.stringify({ error: handleApiError(err) }) in the catch block of
\* toolHandler; an exception of handleApiError leaves the catch block.
errorPayload(account, err) ==
  [type |-> "error", error |-> handleApiError(err)]

\* toolHandler(api, params): the getter of the mode runs first, then the
\* requests to Google; whatever is thrown is translated in the catch block.
toolResult(account, mode, out) ==
  LET r == getService(ServiceOf(mode), VersionOf(ServiceOf(mode)), account,
                      CacheOf(ServiceOf(mode)), tokens, authClients, nextOid)
  IN IF ~r.ok THEN errorPayload(account, thrown(account, r.error))
     ELSE IF out.ok THEN [type |-> "data", error |-> undefined]
     ELSE errorPayload(account, out.error)

toolHandler(account, mode, out) ==
  LET svc == ServiceOf(mode)
      r == getService(svc, VersionOf(svc), account, CacheOf(svc), tokens,
                      authClients, nextOid)
  IN /\ gmailClients' = IF svc = "gmail" THEN r.cache ELSE gmailClients
     /\ calendarClients' = IF svc = "calendar" THEN r.cache ELSE calendarClients
     /\ driveClients' = IF svc = "drive" THEN r.cache ELSE driveClients
     /\ peopleClients' = IF svc = "people" THEN r.cache ELSE peopleClients
     /\ authClients' = r.authClients
     /\ nextOid' = r.nextOid
     /\ last' = [op |-> "tool", account |-> account, mode |-> mode,
                 reached |-> r.ok, upstream |-> out,
                 result |-> toolResult(account, mode, out)]
     /\ UNCHANGED <<tokens, file, issued, setupToken, flows>>

\* A handler of a mode up to its first await: it calls the getter of the
\* mode, synchronously, and is then suspended on a request to Google holding
\* the client; when the getter throws, toolHandler returns the error payload.
handlerAwaits(f, account, mode) ==
  LET svc == ServiceOf(mode)
      r == getService(svc, VersionOf(svc), account, CacheOf(svc), tokens,
                      authClients, nextOid)
  IN /\ flows[f] = Idle
     /\ gmailClients' = IF svc = "gmail" THEN r.cache ELSE gmailClients
     /\ calendarClients' = IF svc = "calendar" THEN r.cache ELSE calendarClients
     /\ driveClients' = IF svc = "drive" THEN r.cache ELSE driveClients
     /\ peopleClients' = IF svc = "people" THEN r.cache ELSE peopleClients
     /\ authClients' = r.authClients
     /\ nextOid' = r.nextOid
     /\ IF r.ok
        THEN /\ flows' = [flows EXCEPT ![f] =
                            [pc |-> "upstream", account |-> account,
                             mode |-> mode, client |-> r.client]]
             /\ UNCHANGED last
        ELSE /\ last' = [op |-> "tool", account |-> account, mode |-> mode,
                         reached |-> FALSE,
                         upstream |-> [ok |-> TRUE, error |-> undefined],
                         result |-> errorPayload(account, thrown(account, r.error))]
             /\ UNCHANGED flows
     /\ UNCHANGED <<tokens, file, issued, setupToken>>

\* The request a handler is suspended on settles: the handler returns its
\* string, or the request throws and toolHandler returns the error payload.
handlerSettles(f, out) ==
  /\ flows[f].pc = "upstream"
  /\ flows' = [flows EXCEPT ![f] = Idle]
  /\ last' = [op |-> "tool", account |-> flows[f].account,
              mode |-> flows[f].mode, reached |-> TRUE, upstream |-> out,
              result |-> IF out.ok THEN [type |-> "data", error |-> undefined]
                         ELSE errorPayload(flows[f].account, out.error)]
  /\ UNCHANGED <<tokens, file, authClients, gmailClients, calendarClients,
                 driveClients, peopleClients, nextOid, issued, setupToken>>

(* ------------------------------- /setup -------------------------------- *)

\* req.query.token and req.query.account
TokenParams == {undefined, SetupSecret, WrongSecret}

AccountParams == {undefined, Str(""), Str("iamnickurban@gmail.com")}

\* GET /setup with `token !== setupToken` alone, without `!setupToken ||`.
setupResponseNoUnsetCheck(token, account, secret, toks) ==
  IF token # secret
  THEN [status |-> 403, kind |-> "refused"]
  ELSE IF ~truthy(account)
  THEN [status |-> 200, kind |-> "listing",
        configured |-> getConfiguredAccounts(toks)]
  ELSE [status |-> 302, kind |-> "redirect", login_hint |-> account.value,
        scope |-> SCOPES, access_type |-> "offline", prompt |-> "consent",
        state |-> [text |-> "object",
                   members |-> <<<<"account", account.value>>>>]]

\* GET /setup: the refusal, the page listing the configured accounts, or the
\* redirect to the consent page with {account, token} as the state.
setupResponse(token, account, secret, toks) ==
  IF secret = Unset \/ token # secret
  THEN [status |-> 403, kind |-> "refused"]
  ELSE IF ~truthy(account)
  THEN [status |-> 200, kind |-> "listing",
        configured |-> getConfiguredAccounts(toks)]
  ELSE [status |-> 302, kind |-> "redirect", login_hint |-> account.value,
        scope |-> SCOPES, access_type |-> "offline", prompt |-> "consent",
        state |-> stringifyState(account.value, secret.value)]

setup(token, account) ==
  /\ last' = [op |-> "setup", token |-> token, account |-> account,
              response |-> setupResponse(token, account, setupToken, tokens)]
  /\ UNCHANGED <<tokens, file, authClients, gmailClients, calendarClients,
                 driveClients, peopleClients, nextOid, issued, setupToken, flows>>

(* --------------------------- specifications --------------------------- *)

\* The state after `new WorkspaceAPI(keyFile, tokensFile)`: the constructor
\* runs loadTokens on empty caches.
Constructed ==
  /\ file \in InitialFiles
  /\ tokens = loadedTokens(file)
  /\ authClients = EmptyMap
  /\ gmailClients = EmptyMap
  /\ calendarClients = EmptyMap
  /\ driveClients = EmptyMap
  /\ peopleClients = EmptyMap
  /\ nextOid = 1
  /\ issued = 0
  /\ flows = [f \in Slots |-> Idle]
  /\ last = NoCallback

\* The class under any caller of its public methods.
Init ==
  /\ Constructed
  /\ setupToken = Unset

Next ==
  \/ loadTokens
  \/ \E email \in Accounts, w \in WriteOutcomes :
        SaveTokenCall(email, w) /\ issued' <= MaxIssued
  \/ \E account \in Accounts : gmail(account) /\ nextOid' <= MaxObjects + 1
  \/ \E account \in Accounts : calendar(account) /\ nextOid' <= MaxObjects + 1
  \/ \E account \in Accounts : drive(account) /\ nextOid' <= MaxObjects + 1
  \/ \E account \in Accounts : people(account) /\ nextOid' <= MaxObjects + 1

Spec == Init /\ [][Next]_vars

\* The server with its setup routes: the pieces of the callbacks run between
\* the tool calls.  The server calls loadTokens from the constructor only and
\* saveToken from the callback only; the tool calls are those of the gmail
\* mode (the other three getters run the same getService on their own cache).
InitCallback ==
  /\ Constructed
  /\ setupToken \in {Unset, SetupSecret}

NextCallback ==
  \/ \E f \in Flows, error \in ErrorParams, code \in CodeParams,
        stateRaw \in StateParams : oauth2callback(f, error, code, stateRaw)
  \/ \E f \in Flows, x \in ExchangeResults(Str("good"), issued) :
        getTokenReturns(f, x) /\ issued' <= MaxIssued
  \/ \E f \in Flows, p \in ProfileResults, w \in WriteOutcomes :
        getProfileReturns(f, p, w)
  \/ \E account \in Accounts : gmail(account) /\ nextOid' <= MaxCallbackObjects + 1

SpecCallback == InitCallback /\ [][NextCallback]_vars

\* handleApiError applied to the values a catch block can hand it.
InitTranslate ==
  /\ Constructed
  /\ setupToken = Unset

NextTranslate == \E e \in ErrorValues : translate(e)

SpecTranslate == InitTranslate /\ [][NextTranslate]_vars

\* The server answering tool calls and /setup requests.
InitRequests ==
  /\ Constructed
  /\ setupToken \in {Unset, SetupSecret}

NextRequests ==
  \/ \E account \in Accounts, mode \in Modes, out \in UpstreamOutcomes :
        toolHandler(account, mode, out) /\ nextOid' <= MaxObjects + 1
  \/ \E token \in TokenParams, account \in AccountParams : setup(token, account)

SpecRequests == InitRequests /\ [][NextRequests]_vars

\* The two setup routes: /setup requests and the head of the callback, for
\* callbacks that arrive while others are suspended on their exchange.
NextStart ==
  \/ \E token \in TokenParams, account \in AccountParams : setup(token, account)
  \/ \E f \in Slots, error \in ErrorParams, code \in CodeParams,
        stateRaw \in StateParams : oauth2callback(f, error, code, stateRaw)

SpecStart == InitCallback /\ [][NextStart]_vars

\* Callbacks that passed the checks run concurrently: they are suspended on
\* the exchange and on the identity query, and resume in any order.
InitFlows ==
  /\ Constructed
  /\ setupToken = SetupSecret

NextFlows ==
  \/ \E f \in Slots :
        oauth2callback(f, undefined, Str("good"),
                       stringifyState("iamnickurban@gmail.com", SetupSecret.value))
  \/ \E f \in Slots, x \in ExchangeResults(Str("good"), issued) :
        getTokenReturns(f, x) /\ issued' <= MaxConcurrent
  \/ \E f \in Slots, p \in ProfileResults, w \in WriteOutcomes :
        getProfileReturns(f, p, w)

SpecFlows == InitFlows /\ [][NextFlows]_vars

\* What the request of a suspended handler settles to: a response, or one of
\* the failures (which failure it is does not reach the class).
SettledOutcomes ==
  {out \in UpstreamOutcomes : out.ok \/ out.error.response.data = Str("Unauthorized")}

\* The class under tool calls of the gmail mode that are suspended on their
\* requests while other tool calls, saveToken and loadTokens run (the
\* handlers of the other modes call their getter in the same place).
NextConcurrent ==
  \/ loadTokens
  \/ \E email \in Accounts, w \in WriteOutcomes :
        SaveTokenCall(email, w) /\ issued' <= MaxIssued
  \/ \E f \in Slots, account \in Accounts :
        handlerAwaits(f, account, "gmail") /\ nextOid' <= MaxObjects + 1
  \/ \E f \in Slots, out \in SettledOutcomes : handlerSettles(f, out)

SpecConcurrent == Init /\ [][NextConcurrent]_vars

(* ------------------------------ claims -------------------------------- *)

AllowList == {ALLOWED_ACCOUNTS[i] : i \in 1..Len(ALLOWED_ACCOUNTS)}

\* The allow-listed identities other than the delegated one.
OAuthIdentities == (Accounts \cap AllowList) \ {WORKSPACE_ACCOUNT}

\* A getter called in the current state.
Get(svc, a) ==
  getService(svc, VersionOf(svc), a, CacheOf(svc), tokens, authClients, nextOid)

Cached(a) ==
  \/ authClients[a] # undefined
  \/ \E svc \in Services : CacheOf(svc)[a] # undefined

\* C1: in every reachable state, auth and the four getters reject every
\* identity outside the allow-list and construct and cache nothing for it,
\* whatever the token map holds; every key of the credential cache and of the
\* four service caches is in the allow-list.
C1_AllowListIsBoundary ==
  /\ \A a \in Accounts \ AllowList :
       /\ ~auth(a, tokens, authClients, nextOid).ok
       /\ auth(a, tokens, authClients, nextOid).built = 0
       /\ auth(a, tokens, authClients, nextOid).authClients = authClients
       /\ \A svc \in Services :
            /\ ~Get(svc, a).ok
            /\ Get(svc, a).cache = CacheOf(svc)
            /\ Get(svc, a).authClients = authClients
            /\ Get(svc, a).nextOid = nextOid
  /\ \A a \in Accounts : Cached(a) => a \in AllowList

\* A record is stored under an identity outside the allow-list, in memory
\* and in the file, while credentials of allowed identities are cached.
C1_Witness ==
  /\ \E a \in Accounts \ AllowList :
       /\ HasKey(tokens, a)
       /\ Readable(file) /\ HasKey(JSONparse(file), a)
  /\ \E a \in Accounts : authClients[a] # undefined

\* C8: in every reachable state the listing starts with the delegated
\* identity, holds after it exactly the other keys of the token map, and
\* holds no identity twice.
C8_ConfiguredAccountsListing ==
  LET l == getConfiguredAccounts(tokens)
      keys == {tokens[i].key : i \in 1..Len(tokens)}
  IN /\ Len(l) >= 1
     /\ l[1] = WORKSPACE_ACCOUNT
     /\ {l[i] : i \in 2..Len(l)} = keys \ {WORKSPACE_ACCOUNT}
     /\ \A i, j \in 1..Len(l) : i # j => l[i] # l[j]

\* The token map holds a record keyed by the delegated identity and one more.
C8_Witness ==
  /\ HasKey(tokens, WORKSPACE_ACCOUNT)
  /\ Len(tokens) >= 2

\* C10 as claimed: in every reachable state the in-memory map is what a
\* load of the token file yields.
C10_MemoryEqualsFile == tokens = loadedTokens(file)

\* The cache of service svc2 once a getter call of service svc has left
\* its own cache as `cache`.
CacheAfter(svc2, svc, cache) == IF svc2 = svc THEN cache ELSE CacheOf(svc2)

\* C3: in every reachable state, for every identity and service: when
\* get(identity, service) returns a handle, a second get(identity, service)
\* returns the identical handle and constructs nothing, also when a get for
\* any (identity, service) key runs between the two.
C3_SecondGetSameHandle ==
  \A a \in Accounts, svc \in Services :
    LET r1 == Get(svc, a)
    IN r1.ok =>
         /\ LET r2 == getService(svc, VersionOf(svc), a, r1.cache, tokens,
                                 r1.authClients, r1.nextOid)
            IN /\ r2.ok
               /\ r2.client = r1.client
               /\ r2.nextOid = r1.nextOid
               /\ r2.cache = r1.cache
               /\ r2.authClients = r1.authClients
         /\ \A b \in Accounts, svc2 \in Services :
              LET rm == getService(svc2, VersionOf(svc2), b,
                                   CacheAfter(svc2, svc, r1.cache), tokens,
                                   r1.authClients, r1.nextOid)
                  r2 == getService(svc, VersionOf(svc), a,
                                   IF svc2 = svc THEN rm.cache ELSE r1.cache,
                                   tokens, rm.authClients, rm.nextOid)
              IN /\ r2.ok
                 /\ r2.client = r1.client
                 /\ r2.nextOid = rm.nextOid

\* Clients of two services have been returned and are cached for an OAuth
\* identity, on the one credential cached for it.
C3_Witness ==
  \E a \in OAuthIdentities :
    /\ gmailClients[a] # undefined
    /\ calendarClients[a] # undefined
    /\ gmailClients[a].auth = authClients[a]
    /\ calendarClients[a].auth = authClients[a]

\* The step is a saveToken(email, record) call that returns.
Upsert(email) == SaveTokenCall(email, "ok")

\* The five caches hold nothing for the account.
NothingCached(email) ==
  /\ authClients[email] = undefined
  /\ gmailClients[email] = undefined
  /\ calendarClients[email] = undefined
  /\ driveClients[email] = undefined
  /\ peopleClients[email] = undefined

\* resolve(email) and the four getters, called in the current state, yield a
\* credential that is seeded with refresh token rt and is newly built.
ResolvesTo(email, rt) ==
  /\ LET r == auth(email, tokens, authClients, nextOid)
     IN /\ r.ok
        /\ r.client.type = "OAuth2Client"
        /\ r.client.refresh_token = rt
        /\ r.built = 1
        /\ r.client.oid = nextOid
  /\ \A svc \in Services :
       LET g == Get(svc, email)
       IN /\ g.ok
          /\ g.client.oid > nextOid
          /\ g.client.auth.type = "OAuth2Client"
          /\ g.client.auth.refresh_token = rt
          /\ g.client.auth.oid = nextOid

\* C2 as claimed: after saveToken(id, rec) returns, for every id, the next
\* resolve(id) and get(id, service) yield a credential seeded with
\* rec.refresh_token that was not cached before.
C2_UpsertThenResolveAnyId ==
  [][\A email \in Accounts : Upsert(email) => ResolvesTo(email, issued)']_vars

\* C2 amended: after saveToken(id, rec) returns, the five caches hold nothing
\* for id; and when id is an allow-listed identity other than the delegated
\* one, the next resolve(id) and get(id, service) build a new credential
\* seeded with rec.refresh_token.
C2_UpsertThenResolve ==
  [][\A email \in Accounts :
       Upsert(email) =>
         /\ NothingCached(email)'
         /\ email \in OAuthIdentities => ResolvesTo(email, issued)']_vars

\* A credential seeded with the token of this run's latest upsert is cached
\* for an OAuth identity, built after two objects of an earlier credential.
C2_Witness ==
  \E a \in OAuthIdentities :
    /\ issued >= 1
    /\ Lookup(tokens, a) = TokenConfig(issued)
    /\ authClients[a] # undefined
    /\ authClients[a].refresh_token = issued
    /\ authClients[a].oid >= 3
    /\ gmailClients[a] # undefined
    /\ gmailClients[a].auth = authClients[a]

\* The five caches are empty.
AllCachesEmpty ==
  /\ authClients = EmptyMap
  /\ gmailClients = EmptyMap
  /\ calendarClients = EmptyMap
  /\ driveClients = EmptyMap
  /\ peopleClients = EmptyMap

\* The five caches hold for the account what they held before the step.
CachesKept(a) ==
  /\ authClients'[a] = authClients[a]
  /\ gmailClients'[a] = gmailClients[a]
  /\ calendarClients'[a] = calendarClients[a]
  /\ driveClients'[a] = driveClients[a]
  /\ peopleClients'[a] = peopleClients[a]

EmbedsOtherSecret(stateRaw) ==
  /\ stateRaw # undefined
  /\ stateRaw.text = "object"
  /\ Len(stateRaw.members) >= 2
  /\ stateRaw.members[2][1] = "token"
  /\ Str(stateRaw.members[2][2]) # setupToken

\* The last piece that ran took a callback request whose state embeds
\* another secret than the configured one.
MismatchRequest ==
  /\ last.op = "request"
  /\ setupToken # Unset
  /\ EmbedsOtherSecret(last.state)

\* C4 as claimed: every callback whose state embeds a secret different from
\* the configured one is answered with the secret-mismatch response, whatever
\* the code (valid, invalid or absent) and the error parameter.
C4_MismatchAlwaysRejected ==
  MismatchRequest => last.response = "403 Invalid setup token"

\* C4 amended: a callback whose state embeds a secret different from the
\* configured one never goes on to the exchange; when it carries no error
\* parameter and carries a code, valid or not, it is answered with the
\* secret-mismatch response; with an error parameter it is answered
\* "Authorization failed", and without a code "Missing code or state".
C4_MismatchRejected ==
  MismatchRequest =>
    /\ last.response # "proceed"
    /\ (last.error = undefined /\ last.code # undefined)
         => last.response = "403 Invalid setup token"
    /\ last.error # undefined => last.response = "400 Authorization failed"
    /\ (last.error = undefined /\ last.code = undefined)
         => last.response = "400 Missing code or state"

\* A callback with a valid code and no error parameter, whose state embeds
\* another secret, has just been answered with the secret-mismatch response.
C4_Witness ==
  /\ MismatchRequest
  /\ last.error = undefined
  /\ last.code = Str("good")
  /\ last.response = "403 Invalid setup token"

\* The state parameter parses to an object whose token is the configured
\* setup secret.
SecretMatches(stateRaw) ==
  /\ setupToken # Unset
  /\ stateRaw # undefined
  /\ stateRaw.text = "object"
  /\ Len(stateRaw.members) >= 2
  /\ stateRaw.members[2][1] = "token"
  /\ Str(stateRaw.members[2][2]) = setupToken

InFlight(f) == flows[f].pc \in {"getToken", "getProfile"}

\* C5: a callback is at its exchange or at its identity query only if its
\* state parsed and its secret matched the configured one; a request whose
\* state does not parse, whose secret mismatches, or that arrives with no
\* setup secret configured, is answered without starting an exchange and
\* leaves the token map, the token file and the provider untouched; a refresh
\* token is issued only to, and the token store is written only by, a
\* callback that passed the check.
C5_ExchangeOnlyAfterSecretMatch ==
  [][/\ \A f \in Flows : InFlight(f)' => SecretMatches(flows[f].state)'
     /\ (last'.op = "request" /\ ~SecretMatches(last.state)')
          => /\ last'.response # "proceed"
             /\ UNCHANGED <<tokens, file, issued>>
             /\ \A f \in Flows : flows[f] = Idle => flows'[f] = Idle
     /\ issued' # issued
          => \E f \in Flows : /\ flows[f].pc = "getToken"
                              /\ SecretMatches(flows[f].state)
     /\ (tokens' # tokens \/ file' # file)
          => \E f \in Flows : /\ flows[f].pc = "getProfile"
                              /\ SecretMatches(flows[f].state)
                              /\ flows'[f] = Idle]_vars

\* A callback ran all three steps: it has just stored a record and answered
\* with success.
C5_Witness ==
  /\ last.op = "getProfile"
  /\ last.response = "200 Success"
  /\ \E i \in 1..Len(tokens) : tokens[i].value.refresh_token = issued
  /\ issued >= 1

\* The exchange succeeded and returned no refresh token.
NoRefreshToken == [ok |-> TRUE, refresh_token |-> undefined]

\* C6: when the exchange of a callback succeeds without a refresh token, the
\* callback is answered "No refresh token received" (revoke and try again)
\* and ends: the token map, the token file and the five caches are what they
\* were, and no callback reaches the identity query without a refresh token.
C6_NoRefreshTokenNoRecord ==
  [][/\ \A f \in Flows :
          getTokenReturns(f, NoRefreshToken) =>
            /\ last'.response = "400 No refresh token received"
            /\ flows'[f] = Idle
            /\ UNCHANGED <<tokens, file, authClients, gmailClients,
                           calendarClients, driveClients, peopleClients>>
     /\ \A f \in Flows :
          flows'[f].pc = "getProfile" => flows'[f].refresh_token # undefined]_vars

\* A callback has just been answered "No refresh token received" while a
\* record is stored and a credential is cached.
C6_Witness ==
  /\ last.op = "getToken"
  /\ last.response = "400 No refresh token received"
  /\ Len(tokens) >= 1
  /\ \E a \in Accounts : authClients[a] # undefined

\* The account the state of a callback names.
NamedIn(stateRaw) == stateRaw.members[1][2]

\* C7: when the identity query of a callback returns and the write succeeds,
\* the record with the callback's refresh token is stored, in memory and in
\* the file, under the address the query returned; when the state names
\* another account, what is stored under that account does not change.
C7_StoredUnderConfirmedIdentity ==
  [][\A f \in Flows, p \in ProfileResults :
       (p.ok /\ getProfileReturns(f, p, "ok")) =>
         /\ last'.response = "200 Success"
         /\ Lookup(tokens', p.emailAddress)
              = TokenConfig(flows[f].refresh_token.value)
         /\ file' = JSONstringify(tokens')
         /\ NamedIn(flows[f].state) # p.emailAddress
              => /\ Lookup(tokens', NamedIn(flows[f].state))
                      = Lookup(tokens, NamedIn(flows[f].state))
                 /\ Lookup(tokens', NamedIn(flows[f].state))
                      # TokenConfig(flows[f].refresh_token.value)]_vars

\* A callback has just succeeded for an address that is not the account its
\* state named, and no record is stored under the named account.
C7_Witness ==
  /\ last.op = "getProfile"
  /\ last.response = "200 Success"
  /\ last.email # last.account
  /\ HasKey(tokens, last.email)
  /\ ~HasKey(tokens, last.account)

\* C11: the identities with a record in the token store are those for which
\* a callback has succeeded: the set of keys of the token map changes only in
\* the step of a callback that answers with success, and that step stores the
\* record of the identity it answers for.
C11_RecordIffCallbackSucceeded ==
  [][ObjectKeys(tokens') # ObjectKeys(tokens)
       => /\ last'.op = "getProfile"
          /\ last'.response = "200 Success"
          /\ HasKey(tokens', last'.email)]_vars

\* The token file could not be read when the broker was constructed, and no
\* record has been saved since.
UnreadableAtStart == ~Readable(file) /\ issued = 0

\* resolve(account) in the current state.
Resolve(account) == auth(account, tokens, authClients, nextOid)

\* C12: when the token file is missing or unreadable, construction completes
\* with an empty token map; the delegated identity resolves to a credential
\* and every OAuth identity resolves to the missing-credential failure, and
\* an OAuth identity that failed to resolve resolves only after a record was
\* saved under it.
C12_LoadNeverFailsStartup ==
  /\ [](UnreadableAtStart =>
          /\ tokens = <<>>
          /\ getConfiguredAccounts(tokens) = <<WORKSPACE_ACCOUNT>>
          /\ Resolve(WORKSPACE_ACCOUNT).ok
          /\ Resolve(WORKSPACE_ACCOUNT).client.type = "JWT"
          /\ \A a \in OAuthIdentities :
               /\ ~Resolve(a).ok
               /\ Resolve(a).error = "No refresh token")
  /\ [][\A a \in OAuthIdentities :
          (~Resolve(a).ok /\ Resolve(a)'.ok)
            => \E w \in WriteOutcomes : SaveTokenCall(a, w)]_vars

\* The broker started on an unreadable file, nothing was saved, and the
\* delegated identity has been resolved.
C12_Witness ==
  /\ UnreadableAtStart
  /\ tokens = <<>>
  /\ authClients[WORKSPACE_ACCOUNT] # undefined
  /\ gmailClients[WORKSPACE_ACCOUNT] # undefined

\* C13: the token file is never partially written: whatever happens during
\* an upsert, the file afterwards holds the complete map from before the
\* upsert or the complete map after it.
C13_FileNeverPartial ==
  [][file' = file \/ file' = JSONstringify(tokens')]_vars

\* C14: the strategy depends on the identity alone: the delegated identity
\* resolves to a service-account credential with itself as subject, also when
\* a record is stored under it; any other allowed identity resolves to an
\* OAuth2 credential, built from its record when it is built, or fails with
\* the missing-credential error; the cached credentials and the credentials
\* of the cached service clients follow the same rule.
C14_StrategyIsStatic ==
  \A a \in Accounts \cap AllowList :
    LET r == Resolve(a)
        kind == IF a = WORKSPACE_ACCOUNT THEN "JWT" ELSE "OAuth2Client"
    IN /\ a = WORKSPACE_ACCOUNT => r.ok
       /\ r.ok => r.client.type = kind
       /\ (r.ok /\ r.client.type = "JWT") => r.client.subject = a
       /\ ~r.ok => r.error = "No refresh token" /\ ~HasKey(tokens, a)
       /\ (r.built = 1 /\ a # WORKSPACE_ACCOUNT)
            => r.client.refresh_token = Lookup(tokens, a).refresh_token
       /\ authClients[a] # undefined => authClients[a].type = kind
       /\ \A svc \in Services :
            CacheOf(svc)[a] # undefined => CacheOf(svc)[a].auth.type = kind

\* A record is stored under the delegated identity while its cached
\* credential is a service-account one and an OAuth identity has an OAuth2
\* credential cached.
C14_Witness ==
  /\ HasKey(tokens, WORKSPACE_ACCOUNT)
  /\ authClients[WORKSPACE_ACCOUNT] # undefined
  /\ authClients[WORKSPACE_ACCOUNT].type = "JWT"
  /\ \E a \in OAuthIdentities :
       /\ authClients[a] # undefined
       /\ authClients[a].type = "OAuth2Client"

\* The message a tool call returns when auth throws the missing-credential
\* error for the account.
MissingCredentialMessage(a) ==
  errorPayload(a, thrown(a, "No refresh token")).error

Has429(e) ==
  /\ e.type = "object"
  /\ "response" \in DOMAIN e
  /\ e.response.type = "object"
  /\ e.response.status = Num(429)

RateLimited == Text(<<"Rate limited. Wait and try again.">>)

\* C16: an error whose response carries status 429 translates to the
\* rate-limit message, whatever the body, the message and the kind of the
\* error are.
C16_RateLimitWhateverBody ==
  /\ \A e \in ErrorValues : Has429(e) => handleApiError(e) = RateLimited
  /\ (last.op = "handleApiError" /\ Has429(last.error))
       => last.message = RateLimited

\* A 429 whose body carries an error message of its own has been translated
\* to the rate-limit message.
C16_Witness ==
  /\ last.op = "handleApiError"
  /\ Has429(last.error)
  /\ truthy(optprop(optprop(last.error.response.data, "error"), "message"))
  /\ last.message = RateLimited

\* The tool call recorded in l reached Google and failed with status 401.
Upstream401(l) ==
  /\ l.op = "tool"
  /\ l.reached
  /\ ~l.upstream.ok
  /\ l.upstream.error.response.status = Num(401)

\* A tool call as the delegated identity is followed by one as an OAuth
\* identity, and both fail upstream with the same 401.
DelegatedThenOAuth401 ==
  /\ Upstream401(last)
  /\ Upstream401(last')
  /\ last.account = WORKSPACE_ACCOUNT
  /\ last'.account \in OAuthIdentities
  /\ last'.upstream = last.upstream

\* C17 as claimed: the message for a 401 on a request made as the delegated
\* identity differs from the message for a 401 with the same body on a
\* request made as an OAuth identity.
C17_DelegatedMessageDiffers ==
  [][DelegatedThenOAuth401 => last'.result # last.result]_vars

\* C17 amended: the message for a 401 is the same for a request made as the
\* delegated identity and for one made as an OAuth identity (with the same
\* body); it names the remedy for the delegated identity and the remedy for
\* the OAuth identities, one after the other.
C17_SameMessageNamesBothRemedies ==
  [][DelegatedThenOAuth401 =>
       /\ last'.result = last.result
       /\ last'.result.type = "error"
       /\ last'.result.error.type = "string"
       /\ includes(FragsOf(last'.result.error),
                   "For nick@outliyr.com: verify domain-wide delegation. ")
       /\ includes(FragsOf(last'.result.error),
                   "For Gmail accounts: refresh token may be revoked, re-run generate-token. ")]_vars

\* A tool call as an OAuth identity has just failed upstream with a 401,
\* after one as the delegated identity reached Google.
C17_Witness ==
  /\ Upstream401(last)
  /\ last.account \in OAuthIdentities
  /\ \E svc \in Services : CacheOf(svc)[WORKSPACE_ACCOUNT] # undefined

\* C18: handleApiError returns a message, a non-empty string, for every
\* error value and never throws: with or without a response, with any
\* status or none, with any body, for an Error and for any other value.
C18_TranslatorIsTotal ==
  /\ \A e \in ErrorValues :
       /\ handleApiError(e).type = "string"
       /\ FragsOf(handleApiError(e)) # <<>>
  /\ last.op = "handleApiError" => last.message.type = "string"

\* An object with a response property that is undefined has been translated.
C18_Witness ==
  /\ last.op = "handleApiError"
  /\ last.error.type = "object"
  /\ "response" \in DOMAIN last.error
  /\ last.error.response = undefined
  /\ last.message
       = Text(<<"Google API error ", "undefined", ": ", "undefined">>)

\* C19: every failure while a request is handled is answered with an error
\* response: no callback request, whatever its state parses to, raises an
\* exception that no handler catches.
C19_EveryFailureAnswered ==
  last.op = "request" => last.response # "TypeError"

\* C20: a /setup request is answered with the listing or with the redirect
\* only if its token equals the configured setup secret; with another
\* token, without a token, or with no secret configured it is refused with
\* 403; the redirect carries the account and the secret as its state.
C20_SetupGatedBySecret ==
  last.op = "setup" =>
    /\ last.response.kind \in {"listing", "redirect"}
         <=> (setupToken # Unset /\ last.token = setupToken)
    /\ last.response.kind \in {"listing", "redirect", "refused"}
    /\ last.response.kind = "refused" => last.response.status = 403
    /\ last.response.kind = "listing"
         => last.response.configured = getConfiguredAccounts(tokens)
    /\ last.response.kind = "redirect"
         => /\ SecretMatches(last.response.state)
            /\ NamedIn(last.response.state) = last.account.value

\* A /setup request for an account has been refused for carrying another
\* token than the configured secret.
C20_Witness ==
  /\ last.op = "setup"
  /\ setupToken = SetupSecret
  /\ last.token = WrongSecret
  /\ truthy(last.account)
  /\ last.response.kind = "refused"

\* C23: every key of the token map, and every account getConfiguredAccounts
\* lists, is a member of the allow-list.
C23_KeysAreAllowed ==
  /\ \A i \in 1..Len(tokens) : isAllowedAccount(tokens[i].key)
  /\ \A i \in 1..Len(getConfiguredAccounts(tokens)) :
       isAllowedAccount(getConfiguredAccounts(tokens)[i])

\* C24: for every OAuth identity with a cached credential, the token map
\* holds a record for the identity, and its refresh token is the one the
\* cached credential carries.
C24_CachedCredentialNeverStale ==
  \A a \in OAuthIdentities :
    authClients[a] # undefined =>
      /\ HasKey(tokens, a)
      /\ Lookup(tokens, a).refresh_token = authClients[a].refresh_token

\* C25: a service client cached for an identity is bound to the credential
\* cached for that identity, which exists: the cached service clients of one
\* identity share one credential.
C25_ServiceBoundToCachedCredential ==
  \A a \in Accounts, svc \in Services :
    CacheOf(svc)[a] # undefined =>
      /\ authClients[a] # undefined
      /\ CacheOf(svc)[a].auth = authClients[a]
      /\ \A svc2 \in Services :
           CacheOf(svc2)[a] # undefined
             => CacheOf(svc2)[a].auth.oid = CacheOf(svc)[a].auth.oid

\* After a record was saved, the clients of three services are cached for
\* the delegated identity.
C25_Witness ==
  /\ issued >= 1
  /\ authClients[WORKSPACE_ACCOUNT] # undefined
  /\ gmailClients[WORKSPACE_ACCOUNT] # undefined
  /\ driveClients[WORKSPACE_ACCOUNT] # undefined
  /\ peopleClients[WORKSPACE_ACCOUNT] # undefined

\* The record the token file holds for an identity.
FileRecord(raw, k) ==
  IF Readable(raw) THEN Lookup(JSONparse(raw), k) ELSE undefined

\* C26: a saveToken call for an identity leaves the record of every other
\* identity, in the token map and in the token file, as it was.
C26_UpsertChangesOneRecord ==
  [][\A id \in Accounts, w \in WriteOutcomes :
       SaveTokenCall(id, w) =>
         \A other \in Accounts \ {id} :
           /\ Lookup(tokens', other) = Lookup(tokens, other)
           /\ FileRecord(file', other) = FileRecord(file, other)]_vars

\* The token map, the token file and the five caches are left as they are.
StoreAndCachesUnchanged ==
  UNCHANGED <<tokens, file, authClients, gmailClients, calendarClients,
              driveClients, peopleClients>>

\* C29: a callback whose exchange or whose identity query fails is answered
\* with an error response and ends; no step of it, from the request to the
\* failure, changes the token map, the token file or a cache.
C29_FailedCallbackHasNoEffect ==
  [][/\ \A f \in Flows, x \in ExchangeResults(Str("good"), issued)
                          \cup ExchangeResults(Str("bad"), issued) :
          getTokenReturns(f, x) =>
            /\ StoreAndCachesUnchanged
            /\ ~x.ok => /\ last'.response = "500 Token exchange failed"
                        /\ flows'[f] = Idle
     /\ \A f \in Flows, p \in ProfileResults, w \in WriteOutcomes :
          (~p.ok /\ getProfileReturns(f, p, w)) =>
            /\ StoreAndCachesUnchanged
            /\ last'.response = "500 Token exchange failed"
            /\ flows'[f] = Idle
     /\ \A f \in Flows :
          (flows[f] = Idle /\ flows'[f] # Idle) => StoreAndCachesUnchanged]_vars

\* The identity query of a callback has just failed while a record is stored
\* and a client is cached.
C29_Witness ==
  /\ last.op = "getProfile"
  /\ last.email = ""
  /\ last.response = "500 Token exchange failed"
  /\ Len(tokens) >= 1
  /\ \E a \in Accounts : gmailClients[a] # undefined

\* C21: a state value is consumed by the callback that accepts it: no two
\* callbacks that passed the checks carry the same state value, so a second
\* callback with a state that was already accepted is refused.
C21_StateConsumedAtCallback ==
  \A f, g \in Slots :
    (f # g /\ InFlight(f) /\ InFlight(g)) => flows[f].state # flows[g].state

Pending(f, a) == flows[f].pc = "upstream" /\ flows[f].account = a

\* C22: a tool call resolves and caches its client in one step, without a
\* suspension point: the call that finds a client cached for its account
\* receives that instance and builds nothing, and every call that is
\* answered with a client receives the instance the cache holds after the
\* call; a step that is neither an upsert nor a reload never replaces or
\* removes a cached client or a cached credential, so between two upserts or
\* reloads one instance is built for a key and every request receives it.
C22_OneClientPerKey ==
  [][/\ \A f \in Slots, a \in Accounts :
          (flows' # flows /\ flows[f] = Idle /\ handlerAwaits(f, a, "gmail")) =>
             /\ flows'[f].client = gmailClients'[a]
             /\ gmailClients[a] # undefined =>
                  (flows'[f].client = gmailClients[a] /\ nextOid' = nextOid)
             /\ nextOid' <= nextOid + 2
     /\ (~loadTokens /\ ~\E email \in Accounts, w \in WriteOutcomes :
                            SaveTokenCall(email, w)) =>
          \A a \in Accounts :
            /\ gmailClients[a] # undefined => gmailClients'[a] = gmailClients[a]
            /\ authClients[a] # undefined => authClients'[a] = authClients[a]]_vars

C22_Witness ==
  \E f, g \in Slots, a \in Accounts :
    /\ f # g
    /\ Pending(f, a)
    /\ Pending(g, a)
    /\ flows[f].client = gmailClients[a]
    /\ flows[g].client = gmailClients[a]

\* C27: an upsert for an identity and a reload leave the handles held by
\* suspended requests as they are, and the first get for an identity that had
\* a client cached before the upsert or the reload returns a client built
\* after it, different from the one cached before.
C27_HandlesRebuiltNeverMutated ==
  [][\A a \in Accounts :
       (/\ gmailClients[a] # undefined
        /\ (\E w \in WriteOutcomes : SaveTokenCall(a, w)) \/ loadTokens) =>
          /\ flows' = flows
          /\ (Get("gmail", a).ok)'
          /\ (Get("gmail", a).client)' # gmailClients[a]
          /\ \E oid \in 1..(MaxObjects + 1) :
               oid = nextOid /\ (Get("gmail", a).client.oid)' >= oid]_vars

\* C28: a callback that completes adds or replaces the record of the identity
\* it confirmed and leaves every other record of the token map as it was, and
\* the file it writes holds the whole map; so when callbacks for different
\* identities interleave at their exchange and their identity query, the map
\* and the file hold the records of all of them once they have completed.
C28_ConcurrentCallbacksKeepBothRecords ==
  [][\A f \in Slots, p \in ProfileResults :
       (p.ok /\ getProfileReturns(f, p, "ok")) =>
          /\ \A k \in Accounts \ {p.emailAddress} :
               Lookup(tokens', k) = Lookup(tokens, k)
          /\ \E rt \in 1..(MaxConcurrent + 1) :
               /\ rt = flows[f].refresh_token.value
               /\ Lookup(tokens', p.emailAddress) = TokenConfig(rt)
          /\ file' = JSONstringify(tokens')
          /\ \A k \in Accounts : FileRecord(file', k) = Lookup(tokens', k)]_vars

\* Two callbacks were suspended together and completed in the order opposite
\* to their exchanges, for different identities.
C28_Witness ==
  /\ \A f \in Slots : flows[f] = Idle
  /\ \E i, j \in 1..Len(tokens) :
       /\ i < j
       /\ tokens[i].key # tokens[j].key
       /\ tokens[i].value = TokenConfig(2)
       /\ tokens[j].value = TokenConfig(1)
  /\ file = JSONstringify(tokens)

\* C30: for every account and every configured setup secret, the state that
\* /setup binds into the redirect passes the checks of the callback and names
\* the account given to /setup; a callback that arrives with a code and the
\* state of the redirect just answered is accepted for that account.
C30_StateRoundTrip ==
  /\ \A a \in Accounts, secret \in {SetupSecret, WrongSecret} :
       LET r == setupResponse(secret, Str(a), secret, <<>>)
       IN /\ r.kind = "redirect"
          /\ validateCallback(undefined, Str("good"), r.state, secret) = "proceed"
          /\ parseState(r.state).account = a
  /\ [][(last.op = "setup" /\ last.response.kind = "redirect") =>
          \A f \in Slots, code \in CodeParams \ {undefined} :
            oauth2callback(f, undefined, code, last.response.state) =>
              /\ last'.response = "proceed"
              /\ flows'[f].pc = "getToken"
              /\ parseState(flows'[f].state).account = last.account.value]_vars

C30_Witness ==
  /\ setupToken = SetupSecret
  /\ last.op = "request"
  /\ last.response = "proceed"
  /\ last.state = setupResponse(setupToken, Str("iamnickurban@gmail.com"),
                                setupToken, tokens).state
  /\ \E f \in Slots : flows[f].pc = "getToken" /\ flows[f].state = last.state

\* The error carries an upstream response: its response property holds one.
CarriesResponse(e) ==
  /\ e.type = "object"
  /\ "response" \in DOMAIN e
  /\ e.response.type = "object"

\* The value is an Error with a message.
IsErrorInstance(e) ==
  /\ e.type = "object"
  /\ "isError" \in DOMAIN e
  /\ e.isError
  /\ "message" \in DOMAIN e
  /\ e.message.type = "string"

\* The first piece of the message the table gives for a status.
StatusHeading(status) ==
  CASE status = Num(400) -> "Bad request: "
    [] status = Num(401) -> "Auth failed - check credentials. "
    [] status = Num(403) -> "Forbidden - ensure the required API scope is granted. "
    [] status = Num(404) -> "Not found: "
    [] status = Num(429) -> "Rate limited. Wait and try again."
    [] OTHER -> "Google API error "

\* The message m is what the dispatch table gives for the error e.
Dispatched(e, m) ==
  /\ m.type = "string"
  /\ IF CarriesResponse(e)
     THEN /\ FragsOf(m)[1] = StatusHeading(e.response.status)
          /\ \A e2 \in ErrorValues :
               (CarriesResponse(e2) /\ e2.response = e.response)
                 => handleApiError(e2) = m
     ELSE IF IsErrorInstance(e)
     THEN IF includes(FragsOf(e.message), "invalid_grant")
          THEN m = Text(<<"Refresh token revoked or expired. Re-run: npm run generate-token">>)
          ELSE IF includes(FragsOf(e.message), "No refresh token")
          THEN m = Text(FragsOf(e.message)
                          \o <<". Visit /setup on the server to authorize.">>)
          ELSE m = Text(<<"Error: ">> \o FragsOf(e.message))
     ELSE FragsOf(m) # <<>>

\* C31: every translation follows the dispatch table: for an error that
\* carries an upstream response the message is the one of its status and
\* depends on the response alone; an error that carries no response is matched
\* against the revoked-refresh-token pattern and the no-credential pattern,
\* each giving its remedy, and every other error is passed through with its
\* own message.
C31_FixedDispatchTable ==
  last.op = "handleApiError" => Dispatched(last.error, last.message)

====
